---- MODULE Spec2Model ----
(***************************************************************************)
(* Model of the Regency fan remote decoder, regency_fan_decode in          *)
(* src/devices/regency_fan.c, together with the bitbuffer and util helpers *)
(* it calls (bitbuffer_invert, bitbuffer_extract_bytes, reflect_bytes,     *)
(* add_nibbles).  Two decoder runs (1 and 2) are kept side by side so that *)
(* properties relating two batches can be stated; a single-batch           *)
(* specification leaves run 2 with an empty batch.                         *)
(***************************************************************************)
EXTENDS Integers, Naturals, Sequences, FiniteSets, TLC

\* Program constants (regency_fan.c)
NUM_BITS == 20
NUM_BYTES == 3
CMD_STOP == 1
CMD_FAN_SPEED == 2
CMD_LIGHT_INT == 4
CMD_LIGHT_DELAY == 5
CMD_FAN_DIR == 6

Runs == {1, 2}
Byte == 0..255

VARIABLES input, verbose, bb, pc, idx, recs, ret, outcome, out

vars == <<input, verbose, bb, pc, idx, recs, ret, outcome, out>>

(***************************************************************************)
(* Helpers of the rtl_433 library (bitbuffer.c, util.c).                   *)
(***************************************************************************)

\* reflect8: reverse the bit order of one byte
Reflect8(x) ==
  LET bit(i) == (x \div (2^i)) % 2
  IN  bit(0) * 128 + bit(1) * 64 + bit(2) * 32 + bit(3) * 16
    + bit(4) * 8 + bit(5) * 4 + bit(6) * 2 + bit(7)

\* reflect_bytes: reflect8 applied to every byte of a buffer
ReflectBytes(s) == [i \in 1..Len(s) |-> Reflect8(s[i])]

\* add_nibbles: sum of the high and low nibbles of the first n bytes
RECURSIVE AddNibbles(_, _)
AddNibbles(s, n) ==
  IF n = 0 THEN 0
  ELSE AddNibbles(s, n - 1) + (s[n] \div 16) + (s[n] % 16)

\* bitbuffer_invert on one row: ~ of every byte holding bits of the row
InvertRow(row) ==
  [row EXCEPT !.bytes =
     [c \in 1..Len(row.bytes) |->
        IF c <= (row.len + 7) \div 8 THEN 255 - row.bytes[c] ELSE row.bytes[c]]]

\* bitbuffer_invert on the whole buffer
BitbufferInvert(rows) == [i \in 1..Len(rows) |-> InvertRow(rows[i])]

\* bitbuffer_extract_bytes(bitbuffer, row, 0, out, len): copy (len+7)/8
\* bytes from bit position 0, then clear the bits beyond len in the last one
ExtractBytes(bytes, len) ==
  LET n == (len + 7) \div 8
      last == (len - 1) \div 8 + 1
      mask == (65280 \div (2^(len % 8))) % 256
      BitAndMask(x) ==
        LET RECURSIVE A(_, _, _)
            A(u, v, k) == IF k = 8 THEN 0
                          ELSE ((u \div 2^k) % 2) * ((v \div 2^k) % 2) * 2^k
                               + A(u, v, k + 1)
        IN A(x, mask, 0)
  IN [c \in 1..n |->
        IF len % 8 # 0 /\ c = last THEN BitAndMask(bytes[c]) ELSE bytes[c]]

(***************************************************************************)
(* regency_fan.c                                                           *)
(***************************************************************************)

command_names ==
  <<"invalid", "fan_speed", "fan_speed", "invalid", "light_intensity",
    "light_delay", "fan_direction", "invalid", "invalid", "invalid",
    "invalid", "invalid", "invalid", "invalid", "invalid", "invalid">>

\* command_names[command] (C index 0..15)
CommandName(cmd) == command_names[cmd + 1]

output_fields ==
  <<"model", "device_id", "device_id_hex", "counter", "counter_hex",
    "id_bits", "button_pressed">>

\* "%d" of a non-negative integer
Digits == <<"0", "1", "2", "3", "4", "5", "6", "7", "8", "9">>
RECURSIVE FmtInt(_)
FmtInt(n) ==
  IF n < 10 THEN Digits[n + 1] ELSE FmtInt(n \div 10) \o Digits[(n % 10) + 1]

\* length test written as a lower bound
NumBitsAtLeast(n) == n >= NUM_BITS

\* num_bits != NUM_BITS
NumBitsOk(n) == n = NUM_BITS

\* bitbuffer_extract_bytes followed by reflect_bytes
RowBytes(row) == ReflectBytes(ExtractBytes(row.bytes, NUM_BITS))

\* checksum failure not rejected
ChecksumIgnored(bytes) == TRUE

\* nibble sum over the first byte only
ChecksumOneByte(bytes) == (AddNibbles(bytes, 1) % 16) = bytes[3]

\* checksum = add_nibbles(bytes, 2) & 0x0f; checksum != bytes[SUM_BYTE]
ChecksumOk(bytes) == (AddNibbles(bytes, 2) % 16) = bytes[3]

\* command = bytes[CMD_CHAN_BYTE] >> 4
Command(bytes) == bytes[1] \div 16

\* channel read without the complement
ChannelPlain(bytes) == bytes[1] % 16

\* channel = ~bytes[CMD_CHAN_BYTE] & 0x0f
Channel(bytes) == (255 - bytes[1]) % 16

\* value = bytes[VALUE_BYTE]
Value(bytes) == bytes[2]

\* the switch cases that format value_string
KnownCommand(cmd) ==
  cmd \in {CMD_STOP, CMD_FAN_SPEED, CMD_LIGHT_INT, CMD_LIGHT_DELAY, CMD_FAN_DIR}

\* fan direction test inverted
ValueStringDirSwapped(cmd, value) ==
  CASE cmd = CMD_STOP        -> "stop"
    [] cmd = CMD_FAN_SPEED   -> "speed " \o FmtInt(value)
    [] cmd = CMD_LIGHT_INT   -> FmtInt(value) \o " %"
    [] cmd = CMD_LIGHT_DELAY -> IF value = 0 THEN "off" ELSE "on"
    [] cmd = CMD_FAN_DIR     -> IF value = 7 THEN "counter-clockwise"
                                ELSE "clockwise"
    [] OTHER                 -> ""

\* value_string after the switch (stays "" in the default branch)
ValueString(cmd, value) ==
  CASE cmd = CMD_STOP        -> "stop"
    [] cmd = CMD_FAN_SPEED   -> "speed " \o FmtInt(value)
    [] cmd = CMD_LIGHT_INT   -> FmtInt(value) \o " %"
    [] cmd = CMD_LIGHT_DELAY -> IF value = 0 THEN "off" ELSE "on"
    [] cmd = CMD_FAN_DIR     -> IF value = 7 THEN "clockwise"
                                ELSE "counter-clockwise"
    [] OTHER                 -> ""

\* data_make(...) of the decoded record
MakeRecord(cmd, channel, vs) ==
  [model   |-> "Regency-compatible Remote",
   type    |-> "Ceiling Fan",
   channel |-> channel,
   command |-> CommandName(cmd),
   value   |-> vs,
   mic     |-> "nibble_sum"]

(***************************************************************************)
(* Actions: one run r of regency_fan_decode.                               *)
(***************************************************************************)

\* entry of regency_fan_decode up to the row loop
Start(r) ==
  /\ pc[r] = "start"
  /\ LET o1 == IF verbose[r] > 1 THEN <<"bitbuffer_printf">> ELSE <<>>
     IN IF Len(bb[r]) < 1
        THEN /\ out' = [out EXCEPT ![r] =
                          @ \o o1 \o (IF verbose[r] > 1 THEN <<"No rows">> ELSE <<>>)]
             /\ pc' = [pc EXCEPT ![r] = "done"]
             /\ UNCHANGED bb
        ELSE /\ bb' = [bb EXCEPT ![r] = BitbufferInvert(@)]
             /\ out' = [out EXCEPT ![r] = @ \o o1 \o <<"bitbuffer_print">>]
             /\ pc' = [pc EXCEPT ![r] = "loop"]
  /\ UNCHANGED <<input, verbose, idx, recs, ret, outcome>>

\* return_code set as soon as the checksum passes
StepRcEarly(r) ==
  /\ pc[r] = "loop"
  /\ idx[r] <= Len(bb[r])
  /\ LET i == idx[r]
         row == bb[r][i]
         bytes == RowBytes(row)
         cmd == Command(bytes)
         dbg == verbose[r] > 1
         Skip(tag, msg) ==
           /\ outcome' = [outcome EXCEPT ![r] = Append(@, tag)]
           /\ out' = [out EXCEPT ![r] = IF dbg THEN Append(@, msg) ELSE @]
           /\ UNCHANGED <<recs, ret>>
     IN IF ~NumBitsOk(row.len) THEN Skip("len", "Expected bits")
        ELSE IF ~ChecksumOk(bytes) THEN Skip("sum", "Checksum failure")
        ELSE IF ~KnownCommand(cmd) /\ dbg
             THEN /\ outcome' = [outcome EXCEPT ![r] = Append(@, "cmd")]
                  /\ out' = [out EXCEPT ![r] = Append(@, "Unknown command")]
                  /\ ret' = [ret EXCEPT ![r] = 1]
                  /\ UNCHANGED recs
        ELSE /\ ret' = [ret EXCEPT ![r] = 1]
             /\ recs' = [recs EXCEPT ![r] = Append(@,
                  MakeRecord(cmd, Channel(bytes), ValueString(cmd, Value(bytes))))]
             /\ outcome' = [outcome EXCEPT ![r] = Append(@, "emit")]
             /\ UNCHANGED out
  /\ idx' = [idx EXCEPT ![r] = @ + 1]
  /\ UNCHANGED <<input, verbose, bb, pc>>

\* break instead of continue on a length mismatch
StepLenBreak(r) ==
  /\ pc[r] = "loop"
  /\ idx[r] <= Len(bb[r])
  /\ LET i == idx[r]
         row == bb[r][i]
         bytes == RowBytes(row)
         cmd == Command(bytes)
         dbg == verbose[r] > 1
         Skip(tag, msg) ==
           /\ outcome' = [outcome EXCEPT ![r] = Append(@, tag)]
           /\ out' = [out EXCEPT ![r] = IF dbg THEN Append(@, msg) ELSE @]
           /\ UNCHANGED <<recs, ret>>
     IN IF ~NumBitsOk(row.len)
        THEN /\ outcome' = [outcome EXCEPT ![r] = Append(@, "len")]
             /\ out' = [out EXCEPT ![r] = IF dbg THEN Append(@, "Expected bits") ELSE @]
             /\ idx' = [idx EXCEPT ![r] = Len(bb[r]) + 1]
             /\ UNCHANGED <<recs, ret>>
        ELSE IF ~ChecksumOk(bytes) THEN Skip("sum", "Checksum failure")
        ELSE IF ~KnownCommand(cmd) /\ dbg THEN Skip("cmd", "Unknown command")
        ELSE /\ ret' = [ret EXCEPT ![r] = 1]
             /\ recs' = [recs EXCEPT ![r] = Append(@,
                  MakeRecord(cmd, Channel(bytes), ValueString(cmd, Value(bytes))))]
             /\ outcome' = [outcome EXCEPT ![r] = Append(@, "emit")]
             /\ UNCHANGED out
  /\ NumBitsOk(bb[r][idx[r]].len) => idx' = [idx EXCEPT ![r] = @ + 1]
  /\ UNCHANGED <<input, verbose, bb, pc>>

\* one iteration of the row loop
Step(r) ==
  /\ pc[r] = "loop"
  /\ idx[r] <= Len(bb[r])
  /\ LET i == idx[r]
         row == bb[r][i]
         bytes == RowBytes(row)
         cmd == Command(bytes)
         dbg == verbose[r] > 1
         Skip(tag, msg) ==
           /\ outcome' = [outcome EXCEPT ![r] = Append(@, tag)]
           /\ out' = [out EXCEPT ![r] = IF dbg THEN Append(@, msg) ELSE @]
           /\ UNCHANGED <<recs, ret>>
     IN IF ~NumBitsOk(row.len) THEN Skip("len", "Expected bits")
        ELSE IF ~ChecksumOk(bytes) THEN Skip("sum", "Checksum failure")
        ELSE IF ~KnownCommand(cmd) /\ dbg THEN Skip("cmd", "Unknown command")
        ELSE /\ ret' = [ret EXCEPT ![r] = 1]
             /\ recs' = [recs EXCEPT ![r] = Append(@,
                  MakeRecord(cmd, Channel(bytes), ValueString(cmd, Value(bytes))))]
             /\ outcome' = [outcome EXCEPT ![r] = Append(@, "emit")]
             /\ UNCHANGED out
  /\ idx' = [idx EXCEPT ![r] = @ + 1]
  /\ UNCHANGED <<input, verbose, bb, pc>>

\* loop exit: return return_code
Finish(r) ==
  /\ pc[r] = "loop"
  /\ idx[r] > Len(bb[r])
  /\ pc' = [pc EXCEPT ![r] = "done"]
  /\ UNCHANGED <<input, verbose, bb, idx, recs, ret, outcome, out>>

Next == \E r \in Runs : Start(r) \/ Step(r) \/ Finish(r)

(***************************************************************************)
(* Inputs.  A row is [len, bytes, norm]: bytes is the bitbuffer content    *)
(* (3 bytes, bits beyond len zero); norm is the byte triple the            *)
(* transmitter encoded, kept for stating properties.  The receiver's       *)
(* demodulator delivers the complement of the transmitted LSB-first bits   *)
(* ("inverted"); "plain" is the row without that complement.               *)
(***************************************************************************)

\* nibble-sum checksum of a transmitted triple
SumNibble(b0, b1) == ((b0 \div 16) + (b0 % 16) + (b1 \div 16) + (b1 % 16)) % 16

\* triple (cmd<<4 | ~ch&0xF, value, checksum)
Triple(c, ch, v) == <<c * 16 + (15 - ch), v, SumNibble(c * 16 + (15 - ch), v)>>

\* keep the first len bits of 3 bytes, zero the rest
ClearBeyond(bytes, len) ==
  [c \in 1..3 |->
     LET keep == len - 8 * (c - 1)
     IN IF keep >= 8 THEN bytes[c]
        ELSE IF keep <= 0 THEN 0
        ELSE (bytes[c] \div 2^(8 - keep)) * 2^(8 - keep)]

EncodeRow(len, t, pol) ==
  LET lsb == [c \in 1..3 |-> Reflect8(t[c])]
      wire == IF pol = "inverted" THEN [c \in 1..3 |-> 255 - lsb[c]] ELSE lsb
  IN [len |-> len, bytes |-> ClearBeyond(wire, len), norm |-> t, pol |-> pol]

MaxRows == 2
Verbosities == {0, 1, 2}

RowPool ==
  { EncodeRow(20, Triple(1, 3, 0), "inverted"),
    EncodeRow(20, Triple(2, 5, 7), "inverted"),
    EncodeRow(20, Triple(6, 15, 7), "inverted"),
    EncodeRow(20, Triple(0, 2, 9), "inverted"),
    EncodeRow(20, Triple(9, 1, 200), "inverted"),
    EncodeRow(20, <<16 * 4 + 12, 50, 3>>, "inverted"),
    EncodeRow(19, Triple(4, 8, 40), "inverted"),
    EncodeRow(21, Triple(5, 0, 1), "inverted") }

Batches == UNION {[1..n -> RowPool] : n \in 0..MaxRows}

InitCommon ==
  /\ pc = [r \in Runs |-> "start"]
  /\ idx = [r \in Runs |-> 1]
  /\ recs = [r \in Runs |-> <<>>]
  /\ ret = [r \in Runs |-> 0]
  /\ outcome = [r \in Runs |-> <<>>]
  /\ out = [r \in Runs |-> <<>>]

Init ==
  /\ input \in {f \in [Runs -> Batches] : f[2] = <<>>}
  /\ bb = input
  /\ verbose \in {f \in [Runs -> Verbosities] : f[2] = 0}
  /\ InitCommon

Spec == Init /\ [][Next]_vars


(***************************************************************************)
(* Specifications relating or fixing the inputs of the runs.               *)
(***************************************************************************)

\* s without the positions in S
RECURSIVE DropPositions(_, _, _)
DropPositions(s, S, i) ==
  IF i > Len(s) THEN <<>>
  ELSE (IF i \in S THEN <<>> ELSE <<s[i]>>) \o DropPositions(s, S, i + 1)

\* run 2 decodes run 1's batch with some rows of length # NUM_BITS removed
InitFilter ==
  /\ \E b \in Batches, S \in SUBSET (1..MaxRows), v \in Verbosities :
        /\ S \subseteq {i \in 1..Len(b) : b[i].len # 20}
        /\ input = [r \in Runs |-> IF r = 1 THEN b ELSE DropPositions(b, S, 1)]
        /\ verbose = [r \in Runs |-> v]
  /\ bb = input
  /\ InitCommon

SpecFilter == InitFilter /\ [][Next]_vars

\* run 2 decodes a permutation of run 1's batch
InitPerm ==
  /\ \E b \in Batches, v \in Verbosities :
       \E p \in {q \in [1..Len(b) -> 1..Len(b)] : \A j \in 1..Len(b) : \E k \in 1..Len(b) : q[k] = j} :
        /\ input = [r \in Runs |-> IF r = 1 THEN b ELSE [j \in 1..Len(b) |-> b[p[j]]]]
        /\ verbose = [r \in Runs |-> v]
  /\ bb = input
  /\ InitCommon

SpecPerm == InitPerm /\ [][Next]_vars

\* a single well-formed 20-bit row for every command, channel and value
InitRow ==
  /\ \E c \in 0..15, ch \in {0, 10}, v \in Byte, vb \in {0, 2} :
        /\ input = [r \in Runs |-> IF r = 1 THEN <<EncodeRow(20, Triple(c, ch, v), "inverted")>> ELSE <<>>]
        /\ verbose = [r \in Runs |-> IF r = 1 THEN vb ELSE 0]
  /\ bb = input
  /\ InitCommon

SpecRow == InitRow /\ [][Next]_vars

CheckB1 == {0, 7, 90, 255}

\* a single 20-bit row with an arbitrary checksum nibble
InitCk ==
  /\ \E b0 \in Byte, b1 \in CheckB1, b2 \in 0..15 :
        /\ input = [r \in Runs |-> IF r = 1 THEN <<EncodeRow(20, <<b0, b1, b2>>, "inverted")>> ELSE <<>>]
        /\ verbose = [r \in Runs |-> 0]
  /\ bb = input
  /\ InitCommon

SpecCk == InitCk /\ [][Next]_vars

\* a single row built from (command, channel, value), with or without the
\* complement the demodulator applies
InitRT ==
  /\ \E c \in {1, 2, 4, 5, 6}, ch \in 0..15, v \in Byte, pol \in {"plain", "inverted"} :
        /\ input = [r \in Runs |-> IF r = 1 THEN <<EncodeRow(20, Triple(c, ch, v), pol)>> ELSE <<>>]
        /\ verbose = [r \in Runs |-> 0]
  /\ bb = input
  /\ InitCommon

SpecRT == InitRT /\ [][Next]_vars

(***************************************************************************)
(* Properties.                                                             *)
(***************************************************************************)

Done(r) == pc[r] = "done"

\* the normalized bytes of an input row: inverted, extracted, reflected
NormOf(row) == ReflectBytes(ExtractBytes(InvertRow(row).bytes, 20))

\* the nibble-sum check stated on normalized bytes
SumMatches(b) ==
  ((b[1] \div 16) + (b[1] % 16) + (b[2] \div 16) + (b[2] % 16)) % 16 = b[3] % 16

Emits(r) == {i \in 1..Len(outcome[r]) : outcome[r][i] = "emit"}

\* C1: a 20-bit row passing the checksum whose command is not in
\* {1,2,4,5,6} yields no record and does not by itself make the result 1.
C1_NoRecordForUnknownCommand ==
  \A r \in Runs :
    /\ \A i \in 1..Len(outcome[r]) :
         (input[r][i].len = 20 /\ SumMatches(NormOf(input[r][i]))
            /\ NormOf(input[r][i])[1] \div 16 \notin {1, 2, 4, 5, 6})
           => outcome[r][i] # "emit"
    /\ ret[r] = 1 =>
         \E i \in 1..Len(outcome[r]) :
           outcome[r][i] = "emit" /\ NormOf(input[r][i])[1] \div 16 \in {1, 2, 4, 5, 6}

\* C2: a record is emitted only for rows of exactly 20 bits whose checksum
\* passes, and there is one record per such emitting row.
C2_RecordOnlyForValidRows ==
  \A r \in Runs :
    /\ Len(recs[r]) = Cardinality(Emits(r))
    /\ \A i \in Emits(r) :
         input[r][i].len = 20 /\ SumMatches(NormOf(input[r][i]))

C2_Witness ==
  /\ Emits(1) # {}
  /\ \E i \in 1..Len(outcome[1]) : outcome[1][i] = "sum"

\* C3: rows whose length is not 20 yield no record, and removing them from
\* the batch changes neither the records nor the return value.
C3_WrongLengthRowsIrrelevant ==
  /\ \A r \in Runs : \A i \in 1..Len(outcome[r]) :
       input[r][i].len # 20 => outcome[r][i] # "emit"
  /\ (Done(1) /\ Done(2)) => (recs[1] = recs[2] /\ ret[1] = ret[2])

C3_Witness ==
  /\ Done(1) /\ Done(2)
  /\ Len(input[2]) < Len(input[1])
  /\ recs[1] # <<>>

\* C4: a 20-bit row passes the checksum iff the nibble sum of its first two
\* normalized bytes, masked to 4 bits, equals the low nibble of the third;
\* a failing row yields no record.
C4_ChecksumIff ==
  \A r \in Runs : \A i \in 1..Len(outcome[r]) :
    input[r][i].len = 20 =>
      /\ (outcome[r][i] # "sum") <=> SumMatches(NormOf(input[r][i]))
      /\ ~SumMatches(NormOf(input[r][i])) => outcome[r][i] # "emit"

C4_Witness ==
  /\ outcome[1] = <<"sum">>
  /\ NormOf(input[1][1])[1] \div 16 = 2

\* C5: the result is 1 iff at least one row produced a record.
C5_ReturnIffRecord ==
  \A r \in Runs : Done(r) => (ret[r] = 1 <=> recs[r] # <<>>)

C5_Witness ==
  /\ Done(1) /\ ret[1] = 1 /\ Len(recs[1]) = 1
  /\ Len(input[1]) = 2

\* C6: the command and value fields of a record for command 1,2,4,5,6.
ExpectedCategory(c) ==
  CASE c = 1 -> "fan_speed" [] c = 2 -> "fan_speed" [] c = 4 -> "light_intensity"
    [] c = 5 -> "light_delay" [] c = 6 -> "fan_direction"
ExpectedValue(c, v) ==
  CASE c = 1 -> "stop"
    [] c = 2 -> "speed " \o ToString(v)
    [] c = 4 -> ToString(v) \o " %"
    [] c = 5 -> IF v = 0 THEN "off" ELSE "on"
    [] c = 6 -> IF v = 7 THEN "clockwise" ELSE "counter-clockwise"

C6_CommandRendering ==
  \A r \in Runs : \A i \in 1..Len(outcome[r]) :
    LET b == NormOf(input[r][i])
        k == Cardinality({j \in Emits(r) : j <= i})
    IN (outcome[r][i] = "emit" /\ b[1] \div 16 \in {1, 2, 4, 5, 6}) =>
         /\ recs[r][k].command = ExpectedCategory(b[1] \div 16)
         /\ recs[r][k].value = ExpectedValue(b[1] \div 16, b[2])

C6_Witness ==
  /\ recs[1] # <<>>
  /\ input[1][1].norm[1] \div 16 = 6
  /\ input[1][1].norm[2] = 7

\* C7 (as stated): a row carrying the triple LSB-first per byte, without
\* complement, decodes to channel ch, the category of c and the rendering of v.
RoundTrip(pol) ==
  (Done(1) /\ input[1][1].pol = pol) =>
    LET t == input[1][1].norm
        c == t[1] \div 16
        ch == 15 - (t[1] % 16)
    IN /\ Len(recs[1]) = 1
       /\ recs[1][1].channel = ch
       /\ recs[1][1].command = ExpectedCategory(c)
       /\ recs[1][1].value = ExpectedValue(c, t[2])

C7_RoundTripPlain == RoundTrip("plain")

\* C7 (amended): a row carrying the complement of the triple's bits,
\* LSB-first per byte, decodes to exactly that record.
C7_RoundTripInverted == RoundTrip("inverted")

C7_Witness ==
  /\ Done(1) /\ input[1][1].pol = "inverted"
  /\ input[1][1].norm = Triple(2, 5, 7)
  /\ recs[1] = <<[model |-> "Regency-compatible Remote", type |-> "Ceiling Fan",
                  channel |-> 5, command |-> "fan_speed", value |-> "speed 7",
                  mic |-> "nibble_sum"]>>

\* C8: every field name of an emitted record is listed in output_fields.
C8_FieldsDeclared ==
  \A r \in Runs : \A k \in 1..Len(recs[r]) :
    DOMAIN recs[r][k] \subseteq {output_fields[j] : j \in 1..Len(output_fields)}

\* C9: with verbosity at most 1 the decoder writes no diagnostic output.
C9_QuietAtLowVerbosity ==
  \A r \in Runs : verbose[r] <= 1 => out[r] = <<>>

\* C10: decoding a permutation of a batch gives the same multiset of
\* records and the same return value.
BagOfSeq(s) ==
  [x \in {s[i] : i \in 1..Len(s)} |-> Cardinality({i \in 1..Len(s) : s[i] = x})]

C10_PermutationInvariant ==
  (Done(1) /\ Done(2)) => (BagOfSeq(recs[1]) = BagOfSeq(recs[2]) /\ ret[1] = ret[2])

C10_Witness ==
  /\ Done(1) /\ Done(2)
  /\ recs[1] # recs[2]

====
